---- MODULE Spec2Model ----
(***************************************************************************)
(* Model of scripts/scraper.py: the catalogue walk (scrape_books), the     *)
(* summary statistics and the detail enrichment loop of main, and the      *)
(* detail scraper (scrape_book_details).                                   *)
(*                                                                         *)
(* Text is modelled as a sequence of one-character strings where the code  *)
(* looks inside it (price text), a URL or path as the sequence of its      *)
(* segments.  The currency glyph is the character "pound".  A price is     *)
(* kept in hundredths.                                                     *)
(***************************************************************************)
EXTENDS Integers, Sequences, FiniteSets, TLC

VARIABLES
    num_pages,       \* scrape_books: the num_pages argument
    page,            \* scrape_books: the loop variable (0 before the loop)
    pc,              \* position of the single thread of control
    response,        \* scrape_books: the response of requests.get
    all_books,       \* scrape_books: the list of records
    error_log,       \* pages printed by "Error en pagina {page}"
    df_books,        \* main: the DataFrame returned by scrape_books
    stats,           \* main: the statistics dictionary
    files,           \* CSV files written so far
    idx,             \* main: position (1-based) of the row being enriched
    details,         \* main: result of scrape_book_details for that row
    detailed_books,  \* main: the list of enriched records
    served,          \* history: the response served to each catalogue page
    detail_served,   \* history: the response served to each detail request
    events           \* history: network requests and sleeps, in order

vars == <<num_pages, page, pc, response, all_books, error_log, df_books,
          stats, files, idx, details, detailed_books, served, detail_served,
          events>>

walkVars == <<num_pages, page, response, all_books, error_log, served>>
mainVars == <<df_books, stats, files>>
enrichVars == <<idx, details, detailed_books, detail_served>>

(***************************************************************************)
(* Bounds of the model.                                                    *)
(***************************************************************************)
MaxPages == 3
MaxItems == 2
MaxCatalog == 11

(***************************************************************************)
(* Python values.                                                          *)
(***************************************************************************)
None == [is_none |-> TRUE]
NoResponse == [error |-> TRUE, status |-> 0, books |-> <<>>]
NoStats == [total_libros |-> 0]

Min(a, b) == IF a < b THEN a ELSE b

\* {**a, **b}: the keys of both, b's value where both have the key
MergeDict(a, b) ==
    [k \in (DOMAIN a) \cup (DOMAIN b) |-> IF k \in DOMAIN b THEN b[k] ELSE a[k]]

\* d.get(k, default)
DictGet(d, k, default) == IF k \in DOMAIN d THEN d[k] ELSE default

(***************************************************************************)
(* get_rating_number                                                       *)
(***************************************************************************)
ratings == [t \in {"One", "Two", "Three", "Four", "Five"} |->
              CASE t = "One" -> 1
                [] t = "Two" -> 2
                [] t = "Three" -> 3
                [] t = "Four" -> 4
                [] t = "Five" -> 5]

get_rating_number_FiveAsFour(rating_class) ==
    IF rating_class = "Five" THEN 4 ELSE DictGet(ratings, rating_class, 0)

get_rating_number(rating_class) == DictGet(ratings, rating_class, 0)

(***************************************************************************)
(* float(price_text.replace(glyph, ''))                                    *)
(***************************************************************************)
Digits == {"0", "1", "2", "3", "4", "5", "6", "7", "8", "9"}

DigitVal(c) ==
    CASE c = "0" -> 0 [] c = "1" -> 1 [] c = "2" -> 2 [] c = "3" -> 3
      [] c = "4" -> 4 [] c = "5" -> 5 [] c = "6" -> 6 [] c = "7" -> 7
      [] c = "8" -> 8 [] c = "9" -> 9

\* str.replace(old, ''): every occurrence of the one-character old is removed
Replace(text, old) == SelectSeq(text, LAMBDA c : c # old)

RECURSIVE Num(_)
Num(ds) == IF ds = <<>> THEN 0
           ELSE 10 * Num(SubSeq(ds, 1, Len(ds) - 1)) + DigitVal(ds[Len(ds)])

DotAt(text) ==
    IF \E i \in 1..Len(text) : text[i] = "."
    THEN CHOOSE i \in 1..Len(text) : text[i] = "." /\ \A j \in 1..(i - 1) : text[j] # "."
    ELSE Len(text) + 1

\* float() over texts of digits and dots: a ValueError unless there is at
\* least one digit, nothing but digits and at most one dot
FloatRaises(text) ==
    \/ \E i \in 1..Len(text) : text[i] \notin Digits \cup {"."}
    \/ Cardinality({i \in 1..Len(text) : text[i] = "."}) > 1
    \/ ~ \E i \in 1..Len(text) : text[i] \in Digits

\* the value in hundredths (texts carry at most two decimals)
Float(text) ==
    LET d == DotAt(text)
        whole == SubSeq(text, 1, d - 1)
        frac == SubSeq(text, d + 1, Len(text))
    IN  100 * Num(whole) +
        (IF Len(frac) = 0 THEN 0
         ELSE IF Len(frac) = 1 THEN 10 * Num(frac)
         ELSE Num(SubSeq(frac, 1, 2)))

(***************************************************************************)
(* URL rewriting: replace('../', '') and the site prefix                   *)
(***************************************************************************)
StripParent(path) == SelectSeq(path, LAMBDA s : s # "..")

ImageUrl(src) == <<"http://books.toscrape.com">> \o StripParent(src)

BookUrl(href) == <<"http://books.toscrape.com", "catalogue">> \o StripParent(href)

\* str.strip() on a text given as its whitespace and non-whitespace runs
Whitespace == {" ", "\n"}

RECURSIVE LStrip(_)
LStrip(t) == IF t # <<>> /\ Head(t) \in Whitespace THEN LStrip(Tail(t)) ELSE t

RECURSIVE RStrip(_)
RStrip(t) == IF t # <<>> /\ t[Len(t)] \in Whitespace
             THEN RStrip(SubSeq(t, 1, Len(t) - 1)) ELSE t

Strip(t) == RStrip(LStrip(t))

(***************************************************************************)
(* The record scrape_books builds from one product_pod article.            *)
(***************************************************************************)
\* what raises inside the body of "for book in books"
BookRaises(book) ==
    \/ FloatRaises(Replace(book.price_text, "pound"))
    \/ Len(book.rating_class) < 2

BookRecord(book) ==
    [titulo |-> book.title,
     precio |-> Float(Replace(book.price_text, "pound")),
     rating |-> get_rating_number(book.rating_class[2]),
     disponibilidad |-> Strip(book.availability),
     imagen_url |-> ImageUrl(book.img_src),
     libro_url |-> BookUrl(book.href)]

\* the loop over the articles of one page: records are appended to the
\* list one by one until an article raises
\* the same loop with every record inserted at the front of the list
RECURSIVE AppendBooks_Prepend(_, _)
AppendBooks_Prepend(books, acc) ==
    IF books = <<>> THEN [raised |-> FALSE, all |-> acc]
    ELSE IF BookRaises(Head(books)) THEN [raised |-> TRUE, all |-> acc]
    ELSE AppendBooks_Prepend(Tail(books), <<BookRecord(Head(books))>> \o acc)

RECURSIVE AppendBooks(_, _)
AppendBooks(books, acc) ==
    IF books = <<>> THEN [raised |-> FALSE, all |-> acc]
    ELSE IF BookRaises(Head(books)) THEN [raised |-> TRUE, all |-> acc]
    ELSE AppendBooks(Tail(books), Append(acc, BookRecord(Head(books))))

(***************************************************************************)
(* Inputs: what the site can serve.  Every book has its own slug; what     *)
(* varies from run to run is whether an article is well formed and         *)
(* whether the request succeeds.                                           *)
(***************************************************************************)
Slug(p, i) == "book_" \o ToString(p) \o "_" \o ToString(i)

PriceTexts == << <<"pound", "5", "1", ".", "7", "7">>,
                 <<"pound", "9", ".", "5">>,
                 <<"pound", "2", "0">> >>

RatingTokens == <<"Five", "Zero", "Two", "One", "Three", "Four", "five">>

GoodBook(p, i) ==
    [title |-> "Title of " \o Slug(p, i),
     price_text |-> PriceTexts[((p + i) % 3) + 1],
     rating_class |-> <<"star-rating", RatingTokens[((2 * p + i) % Len(RatingTokens)) + 1]>>,
     availability |-> <<"\n", " ", "In stock", "\n">>,
     img_src |-> <<"..", "media", Slug(p, i) \o ".jpg">>,
     href |-> <<Slug(p, i), "index.html">>]

\* a malformed article: a price that is no number, or no rating word
BadBook(p, i) ==
    IF (p + i) % 2 = 0
    THEN [GoodBook(p, i) EXCEPT !.price_text = <<"pound", "N", "/", "A">>]
    ELSE [GoodBook(p, i) EXCEPT !.rating_class = <<"star-rating">>]

PageShapes == UNION {[1..n -> {"good", "bad"}] : n \in 0..MaxItems}

PageBooks(p, shape) ==
    [i \in 1..Len(shape) |-> IF shape[i] = "good" THEN GoodBook(p, i) ELSE BadBook(p, i)]

ConnectionError == [error |-> TRUE, status |-> 0, books |-> <<>>]

PageResponses(p) ==
    {ConnectionError, [error |-> FALSE, status |-> 404, books |-> <<>>]}
    \cup {[error |-> FALSE, status |-> 200, books |-> PageBooks(p, sh)] : sh \in PageShapes}

\* response.raise_for_status()
StatusRaises(r) == r.status >= 400

Event(op, n) == [op |-> op, n |-> n]

(***************************************************************************)
(* scrape_books                                                            *)
(***************************************************************************)
Init ==
    /\ num_pages \in 0..MaxPages
    /\ page = 0
    /\ pc = "for"
    /\ response = NoResponse
    /\ all_books = <<>>
    /\ error_log = <<>>
    /\ df_books = <<>>
    /\ stats = NoStats
    /\ files = {}
    /\ idx = 0
    /\ details = None
    /\ detailed_books = <<>>
    /\ served = <<>>
    /\ detail_served = <<>>
    /\ events = <<>>

\* for page in range(1, num_pages + 1)
ForPage ==
    /\ pc = "for"
    /\ IF page < num_pages
       THEN page' = page + 1 /\ pc' = "get"
       ELSE page' = page /\ pc' = "return"
    /\ UNCHANGED <<num_pages, response, all_books, error_log, served, events>>
    /\ UNCHANGED <<mainVars, enrichVars>>

\* except Exception: print the page, continue; with break instead
ExceptBreak ==
    /\ error_log' = Append(error_log, page)
    /\ pc' = "return"

\* except Exception as e: print(f"Error en pagina {page}: {e}"); continue
ExceptContinue ==
    /\ error_log' = Append(error_log, page)
    /\ pc' = "for"

\* response = requests.get(url)
Get ==
    /\ pc = "get"
    /\ \E r \in PageResponses(page) :
        /\ served' = Append(served, r)
        /\ events' = Append(events, Event("get_page", page))
        /\ IF r.error
           THEN response' = response /\ ExceptContinue
           ELSE response' = r /\ pc' = "status" /\ error_log' = error_log
    /\ UNCHANGED <<num_pages, page, all_books>>
    /\ UNCHANGED <<mainVars, enrichVars>>

\* response.raise_for_status()
RaiseForStatus ==
    /\ pc = "status"
    /\ IF StatusRaises(response)
       THEN ExceptContinue
       ELSE pc' = "parse" /\ error_log' = error_log
    /\ UNCHANGED <<num_pages, page, response, all_books, served, events>>
    /\ UNCHANGED <<mainVars, enrichVars>>

\* soup.find_all('article', class_='product_pod') and the loop over it
ParseBooks ==
    /\ pc = "parse"
    /\ LET res == AppendBooks(response.books, all_books)
       IN  /\ all_books' = res.all
           /\ IF res.raised
              THEN ExceptContinue
              ELSE pc' = "sleep" /\ error_log' = error_log
    /\ UNCHANGED <<num_pages, page, response, served, events>>
    /\ UNCHANGED <<mainVars, enrichVars>>

\* time.sleep(0.5), the last statement of the try block
Sleep ==
    /\ pc = "sleep"
    /\ events' = Append(events, Event("sleep", page))
    /\ pc' = "for"
    /\ UNCHANGED <<walkVars, mainVars, enrichVars>>

\* return pd.DataFrame(all_books); in main: df_books = scrape_books(...)
Return ==
    /\ pc = "return"
    /\ df_books' = all_books
    /\ pc' = "to_csv"
    /\ UNCHANGED <<walkVars, stats, files, enrichVars, events>>

(***************************************************************************)
(* main: the CSV of the catalogue and the statistics                       *)
(***************************************************************************)
RECURSIVE SumOf(_, _)
SumOf(rows, col) == IF rows = <<>> THEN 0 ELSE rows[1][col] + SumOf(Tail(rows), col)

ColMin(rows, col) ==
    CHOOSE m \in {rows[i][col] : i \in 1..Len(rows)} :
        \A i \in 1..Len(rows) : m <= rows[i][col]

ColMax(rows, col) ==
    CHOOSE m \in {rows[i][col] : i \in 1..Len(rows)} :
        \A i \in 1..Len(rows) : m >= rows[i][col]

\* a mean is kept as the pair <<sum, count>>
Summary(df) ==
    [total_libros |-> Len(df),
     precio_promedio |-> <<SumOf(df, "precio"), Len(df)>>,
     precio_minimo |-> ColMin(df, "precio"),
     precio_maximo |-> ColMax(df, "precio"),
     rating_promedio |-> <<SumOf(df, "rating"), Len(df)>>]

\* df_books.to_csv('books_data.csv', ...)
SaveBooksCsv ==
    /\ pc = "to_csv"
    /\ files' = files \cup {"books_data.csv"}
    /\ pc' = "stats"
    /\ UNCHANGED <<walkVars, df_books, stats, enrichVars, events>>

\* stats = {...}: a DataFrame built from an empty list has no columns, and
\* df_books['precio'] raises KeyError, which nothing catches
ComputeStats ==
    /\ pc = "stats"
    /\ IF df_books = <<>>
       THEN pc' = "KeyError" /\ stats' = stats
       ELSE pc' = "enrich_for" /\ stats' = Summary(df_books)
    /\ UNCHANGED <<walkVars, df_books, files, enrichVars, events>>

Next ==
    \/ ForPage
    \/ Get
    \/ RaiseForStatus
    \/ ParseBooks
    \/ Sleep
    \/ Return
    \/ SaveBooksCsv
    \/ ComputeStats

Spec == Init /\ [][Next]_vars

(***************************************************************************)
(* scrape_book_details                                                     *)
(***************************************************************************)
\* the table rows as the dictionary product_info: a later row with the same
\* header replaces an earlier one
ProductInfo(doc) ==
    IF ~doc.has_table THEN <<>>
    ELSE [h \in {doc.rows[i][1] : i \in 1..Len(doc.rows)} |->
            LET last == CHOOSE i \in 1..Len(doc.rows) :
                            /\ doc.rows[i][1] = h
                            /\ \A j \in (i + 1)..Len(doc.rows) : doc.rows[j][1] # h
            IN  doc.rows[last][2]]

\* what raises inside the try block: the request, the status, a breadcrumb
\* with fewer than three links, no product_page article
DetailRaises(r) ==
    \/ r.error
    \/ StatusRaises(r)
    \/ Len(r.breadcrumb) < 3
    \/ ~r.has_article

\* the dictionary returned when nothing raises
DetailDict(r) ==
    [categoria |-> r.breadcrumb[3],
     descripcion |-> IF r.paragraphs = <<>> THEN "Sin descripcion" ELSE r.paragraphs[1],
     upc |-> DictGet(ProductInfo(r), "UPC", ""),
     impuestos |-> DictGet(ProductInfo(r), "Tax", ""),
     stock |-> DictGet(ProductInfo(r), "Availability", "")]

scrape_book_details(r) == IF DetailRaises(r) THEN None ELSE DetailDict(r)

(***************************************************************************)
(* Inputs: the detail pages of the site.  The page of the i-th book is     *)
(* fixed; what varies from run to run is whether the request succeeds.     *)
(***************************************************************************)
FullDetail(i) ==
    [error |-> FALSE, status |-> 200,
     breadcrumb |-> <<"Home", "Books", "Poetry">>,
     has_article |-> TRUE,
     paragraphs |-> <<"About book " \o ToString(i)>>,
     has_table |-> TRUE,
     rows |-> << <<"UPC", "upc" \o ToString(i)>>, <<"Product Type", "Books">>,
                 <<"Tax", "0.00">>, <<"Availability", "In stock (3 available)">> >>]

DetailSite(i) ==
    CASE i % 4 = 1 -> FullDetail(i)
      [] i % 4 = 2 -> [FullDetail(i) EXCEPT !.paragraphs = <<>>,
                          !.rows = << <<"UPC", "old">>, <<"UPC", "upc" \o ToString(i)>> >>]
      [] i % 4 = 3 -> [FullDetail(i) EXCEPT !.breadcrumb = <<"Home", "Books">>]
      [] OTHER -> [FullDetail(i) EXCEPT !.has_table = FALSE, !.rows = <<>>]

\* the request for the i-th book fails (no connection for an odd i, an error
\* status for an even one) or is answered with the page
RequestFailure(i) ==
    IF i % 2 = 1
    THEN [FullDetail(i) EXCEPT !.error = TRUE, !.status = 0]
    ELSE [FullDetail(i) EXCEPT !.status = 404]

DetailResponses(i) == {RequestFailure(i), DetailSite(i)}

(***************************************************************************)
(* main: the enrichment loop                                               *)
(***************************************************************************)
\* df_books.head(10)
HeadRows == 10

\* the dictionary appended with every column of the row
EnrichedRecord_WholeRow(row, d) == MergeDict(row, d)

\* {'titulo': row['titulo'], 'precio': row['precio'], 'rating': row['rating'], **details}
EnrichedRecord(row, d) ==
    MergeDict([titulo |-> row.titulo, precio |-> row.precio, rating |-> row.rating], d)

\* for idx, row in df_books.head(10).iterrows()
\* a loop over every row of df_books
EnrichFor_NoHead ==
    /\ pc = "enrich_for"
    /\ IF idx < Len(df_books)
       THEN idx' = idx + 1 /\ pc' = "details"
       ELSE idx' = idx /\ pc' = "save_detailed"
    /\ UNCHANGED <<walkVars, mainVars, details, detailed_books, detail_served, events>>

EnrichFor ==
    /\ pc = "enrich_for"
    /\ IF idx < Min(HeadRows, Len(df_books))
       THEN idx' = idx + 1 /\ pc' = "details"
       ELSE idx' = idx /\ pc' = "save_detailed"
    /\ UNCHANGED <<walkVars, mainVars, details, detailed_books, detail_served, events>>

\* details = scrape_book_details(row['libro_url'])
CallScrapeBookDetails ==
    /\ pc = "details"
    /\ \E r \in DetailResponses(idx) :
        /\ detail_served' = Append(detail_served, r)
        /\ details' = scrape_book_details(r)
    /\ events' = Append(events, Event("get_detail", idx))
    /\ pc' = "append"
    /\ UNCHANGED <<walkVars, mainVars, idx, detailed_books>>

\* if details: detailed_books.append({...})
AppendDetailed ==
    /\ pc = "append"
    /\ detailed_books' = IF details # None
                         THEN Append(detailed_books, EnrichedRecord(df_books[idx], details))
                         ELSE detailed_books
    /\ pc' = "detail_sleep"
    /\ UNCHANGED <<walkVars, mainVars, idx, details, detail_served, events>>

\* a sleep placed inside "if details:"
DetailSleep_OnlyOnSuccess ==
    /\ pc = "detail_sleep"
    /\ events' = IF details # None
                 THEN Append(events, Event("sleep_detail", idx)) ELSE events
    /\ pc' = "enrich_for"
    /\ UNCHANGED <<walkVars, mainVars, enrichVars>>

\* time.sleep(0.5), the last statement of the loop body
DetailSleep ==
    /\ pc = "detail_sleep"
    /\ events' = Append(events, Event("sleep_detail", idx))
    /\ pc' = "enrich_for"
    /\ UNCHANGED <<walkVars, mainVars, enrichVars>>

\* if detailed_books: ... to_csv('books_detailed.csv', ...)
SaveDetailedCsv ==
    /\ pc = "save_detailed"
    /\ files' = IF detailed_books # <<>> THEN files \cup {"books_detailed.csv"} ELSE files
    /\ pc' = "finished"
    /\ UNCHANGED <<walkVars, df_books, stats, enrichVars, events>>

\* main after the statistics were printed, for a catalogue of one page of
\* well-formed books
InitEnrich ==
    \E n \in 1..MaxCatalog :
        LET r == [error |-> FALSE, status |-> 200,
                  books |-> [i \in 1..n |-> GoodBook(1, i)]]
            books == AppendBooks(r.books, <<>>).all
        IN  /\ num_pages = 1
            /\ page = 1
            /\ pc = "enrich_for"
            /\ response = r
            /\ all_books = books
            /\ error_log = <<>>
            /\ df_books = books
            /\ stats = Summary(books)
            /\ files = {"books_data.csv"}
            /\ idx = 0
            /\ details = None
            /\ detailed_books = <<>>
            /\ served = <<r>>
            /\ detail_served = <<>>
            /\ events = <<Event("get_page", 1), Event("sleep", 1)>>

NextEnrich ==
    \/ EnrichFor
    \/ CallScrapeBookDetails
    \/ AppendDetailed
    \/ DetailSleep
    \/ SaveDetailedCsv

SpecEnrich == InitEnrich /\ [][NextEnrich]_vars

(***************************************************************************)
(* Properties                                                              *)
(***************************************************************************)
WalkReturned == pc \notin {"for", "get", "status", "parse", "sleep"}

PageGets == SelectSeq(events, LAMBDA e : e.op = "get_page")

\* the request of a catalogue page failed: no connection or an error status
PageFetchFailed(r) == r.error \/ r.status >= 400

\* a page that was fetched and whose articles are all well formed
PageClean(r) ==
    /\ ~PageFetchFailed(r)
    /\ \A i \in 1..Len(r.books) : ~BookRaises(r.books[i])

RECURSIVE RecordsExcept(_, _, _)
RecordsExcept(p, n, k) ==
    IF p > n THEN <<>>
    ELSE (IF p = k THEN <<>>
          ELSE [i \in 1..Len(served[p].books) |-> BookRecord(served[p].books[i])])
         \o RecordsExcept(p + 1, n, k)

BaseFields == {"titulo", "precio", "rating", "disponibilidad", "imagen_url", "libro_url"}

DetailFields == {"categoria", "descripcion", "upc", "impuestos", "stock"}

\* C1: the walk issues one fetch attempt for each page 1..num_pages, in
\* increasing order, none twice, whatever failed before; when it returns
\* exactly num_pages attempts were made.
C1_FetchesEveryPageOnceInOrder ==
    /\ Len(PageGets) <= num_pages
    /\ \A i \in 1..Len(PageGets) : PageGets[i].n = i
    /\ WalkReturned => Len(PageGets) = num_pages

C1_Witness ==
    /\ WalkReturned
    /\ num_pages >= 3
    /\ Len(served) >= 3
    /\ served[1].error
    /\ PageFetchFailed(served[2])
    /\ Len(PageGets) = num_pages

\* C2: when the fetch of page k fails and every other page is fetched and
\* parsed without error, the catalogue returned is the records of the other
\* pages, in page order and then document order, each with the six fields
\* and nothing in the place of page k.
C2_FailedPageLeavesNoGap ==
    WalkReturned =>
        /\ Len(served) = num_pages
        /\ \A k \in 1..num_pages :
            (/\ PageFetchFailed(served[k])
             /\ \A p \in 1..num_pages : p # k => PageClean(served[p]))
            => /\ all_books = RecordsExcept(1, num_pages, k)
               /\ \A j \in 1..Len(all_books) : DOMAIN all_books[j] = BaseFields

C2_Witness ==
    /\ WalkReturned
    /\ num_pages = 3
    /\ Len(served) = 3
    /\ PageFetchFailed(served[2])
    /\ PageClean(served[1]) /\ Len(served[1].books) = 2
    /\ PageClean(served[3]) /\ Len(served[3].books) = 2
    /\ Len(all_books) = 4

\* C3: a malformed article is skipped alone: every well-formed article of a
\* page that was fetched, those after a malformed one included, has its
\* record in the catalogue when the walk returns.
C3_MalformedItemSkippedAlone ==
    WalkReturned =>
        \A p \in 1..Len(served) :
            ~PageFetchFailed(served[p]) =>
                \A i \in 1..Len(served[p].books) :
                    ~BookRaises(served[p].books[i]) =>
                        \E j \in 1..Len(all_books) :
                            all_books[j] = BookRecord(served[p].books[i])

\* C6: when the walk ends with an empty catalogue, the run does not end in
\* an unhandled error while the statistics are computed.
C6_EmptyCatalogHandled ==
    (WalkReturned /\ all_books = <<>>) => pc # "KeyError"

\* the rating the table of the specification gives to a token
C7_Table(t) ==
    CASE t = "One" -> 1
      [] t = "Two" -> 2
      [] t = "Three" -> 3
      [] t = "Four" -> 4
      [] t = "Five" -> 5
      [] OTHER -> 0

C7_Tokens == {"One", "Two", "Three", "Four", "Five", "Zero", "Six", "five",
              "ONE", "", "star-rating"}

\* C7: get_rating_number gives 1..5 for One..Five and 0 for any other token,
\* and every record of the catalogue has the rating of its article's token,
\* a number in 0..5.
C7_RatingTotalAndExact ==
    /\ \A t \in C7_Tokens : get_rating_number(t) = C7_Table(t)
    /\ \A j \in 1..Len(all_books) :
        /\ all_books[j].rating \in 0..5
        /\ \A p \in 1..Len(served) : \A i \in 1..Len(served[p].books) :
            (/\ Len(served[p].books[i].rating_class) >= 2
             /\ all_books[j].libro_url = BookUrl(served[p].books[i].href))
            => all_books[j].rating = C7_Table(served[p].books[i].rating_class[2])

C7_Witness ==
    /\ \E j \in 1..Len(all_books) : all_books[j].rating = 5
    /\ \E j \in 1..Len(all_books) : all_books[j].rating = 0

\* C8: a page whose failure was recorded has no record in the catalogue, and
\* the walk goes on to the next page.
C8_FailedPageContributesNothing ==
    \A e \in 1..Len(error_log) :
        LET p == error_log[e]
        IN  /\ \A j \in 1..Len(all_books) : \A i \in 1..Len(served[p].books) :
                all_books[j].libro_url # BookUrl(served[p].books[i].href)
            /\ (WalkReturned /\ p < num_pages) =>
                \E g \in 1..Len(PageGets) : PageGets[g].n = p + 1

\* C9: between the fetch attempts of two pages there is a sleep, whether
\* the earlier page succeeded or failed.
C9_SleepBetweenPageFetches ==
    \A a, b \in 1..Len(events) :
        (a < b /\ events[a].op = "get_page" /\ events[b].op = "get_page")
        => \E m \in (a + 1)..(b - 1) : events[m].op = "sleep"

(***************************************************************************)
(* Properties of the enrichment loop                                       *)
(***************************************************************************)
\* the positions among the first n requests whose details were obtained
RECURSIVE OkPositions(_)
OkPositions(n) ==
    IF n = 0 THEN <<>>
    ELSE IF DetailRaises(detail_served[n]) THEN OkPositions(n - 1)
    ELSE Append(OkPositions(n - 1), n)

LoopEnded == pc \in {"save_detailed", "finished"}

\* C4: the loop requests the detail page of the first 10 rows only, goes on
\* after a failure, and the enriched list is, in input order, the rows among
\* them whose details were obtained.
C4_EnrichedIsOkSubsequenceOfHead ==
    /\ \A e \in 1..Len(events) : events[e].op = "get_detail" => events[e].n <= 10
    /\ LET ok == OkPositions(Len(detail_served))
       IN  /\ Len(detailed_books) <= Len(ok)
           /\ pc # "append" => Len(detailed_books) = Len(ok)
           /\ \A j \in 1..Len(detailed_books) :
                /\ detailed_books[j].titulo = df_books[ok[j]].titulo
                /\ ok[j] <= 10
    /\ LoopEnded => Len(detail_served) = Min(10, Len(df_books))

C4_Witness ==
    /\ pc = "finished"
    /\ Len(df_books) > 10
    /\ DetailRaises(detail_served[1])
    /\ ~DetailRaises(detail_served[2])
    /\ DetailRaises(detail_served[9])
    /\ ~DetailRaises(detail_served[10])
    /\ Len(detailed_books) >= 2

C10_SleepBetweenDetailFetches ==
    \A a, b \in 1..Len(events) :
        (a < b /\ events[a].op = "get_detail" /\ events[b].op = "get_detail")
        => \E m \in (a + 1)..(b - 1) : events[m].op = "sleep_detail"

C10_Witness ==
    /\ Len(detail_served) >= 3
    /\ DetailRaises(detail_served[1])
    /\ ~DetailRaises(detail_served[2])
    /\ Len(SelectSeq(events, LAMBDA e : e.op = "sleep_detail")) >= 2

====
